---- MODULE Spec2Model ----
(***************************************************************************)
(* Incoherent intermediate scattering function of nscsim                   *)
(* (nscsim/quasielastic/incoherent.py): the per-atom correlator            *)
(* serial_worker, the pooled map-reduce intermediate_vector_set, the       *)
(* q-average intermediate and the per-magnitude loop                       *)
(* intermediate_spherical.                                                 *)
(*                                                                         *)
(* Numbers are exact.  A complex number is a triple <<re, im, den>> of     *)
(* integers standing for (re + i*im)/den, kept in lowest terms with        *)
(* den >= 0; den = 0 is what IEEE division by zero yields (<<0,0,0>> is    *)
(* NaN, anything else over 0 is an infinity).  Positions and wavevectors   *)
(* are integer 3-vectors in units that make q.r a multiple of pi/2, so     *)
(* that exp(-i q.r) is one of 1, -i, -1, i.                                *)
(***************************************************************************)
EXTENDS Integers, Sequences, FiniteSets, TLC

\* ------------------------------------------------------------------ bounds
MaxAtoms == 2
MaxFrames == 2
MaxWorkerFrames == 4
MaxWeight == 1
MaxCores == 2
MaxMagnitudes == 2

\* Python's None; an optional integer n is <<n>>
None == <<>>

NoExc == "none"

\* an array held as a tuple of its elements
Arr(f) == SubSeq(f, 1, Len(f))

\* ------------------------------------------------------ exact arithmetic
Abs(n) == IF n < 0 THEN -n ELSE n

Max(a, b) == IF a >= b THEN a ELSE b

Min(a, b) == IF a <= b THEN a ELSE b

RECURSIVE GCD(_, _)
GCD(a, b) == IF b = 0 THEN a ELSE GCD(b, a % b)

\* (re + i*im)/den in lowest terms
CNorm(re, im, den) ==
    LET g == GCD(GCD(Abs(re), Abs(im)), den)
    IN  IF g = 0 THEN <<0, 0, 0>> ELSE <<re \div g, im \div g, den \div g>>

CInt(n) == <<n, 0, 1>>

CZero == CInt(0)

NaN == <<0, 0, 0>>

IsFinite(x) == x[3] # 0

CMul(x, y) == CNorm(x[1] * y[1] - x[2] * y[2], x[1] * y[2] + x[2] * y[1], x[3] * y[3])

CConj(x) == <<x[1], -x[2], x[3]>>

CReal(x) == CNorm(x[1], 0, x[3])

\* x / d for an integer d >= 0; d = 0 gives NaN or an infinity, no exception
CDivInt(x, d) == CNorm(x[1], x[2], x[3] * d)

\* 1.0 / n
Recip(n) == CNorm(1, 0, n)

\* x - y: a combine that is not commutative
CSub(x, y) == CNorm(x[1] * y[3] - y[1] * x[3], x[2] * y[3] - y[2] * x[3], x[3] * y[3])

\* np.add on two scalars
CAdd(x, y) == CNorm(x[1] * y[3] + y[1] * x[3], x[2] * y[3] + y[2] * x[3], x[3] * y[3])

RECURSIVE CSum(_)
CSum(s) == IF s = <<>> THEN CZero ELSE CAdd(CSum(SubSeq(s, 1, Len(s) - 1)), s[Len(s)])

\* np.add on two arrays of shape (#q's, #lags)
npAdd(a, b) == Arr([i \in 1..Len(a) |-> Arr([j \in 1..Len(a[i]) |-> CAdd(a[i][j], b[i][j])])])

\* array / scalar
npDivInt(a, d) == Arr([i \in 1..Len(a) |-> Arr([j \in 1..Len(a[i]) |-> CDivInt(a[i][j], d)])])

Reverse(s) == Arr([i \in 1..Len(s) |-> s[Len(s) + 1 - i]])

\* ------------------------------------------------------------ serial_worker
Dot(u, v) == u[1] * v[1] + u[2] * v[2] + u[3] * v[3]

\* np.tensordot(q, atomic_tr, axes=(1, 1)): shape (#q's, #frames)
tensordot(qv, atomic_tr) ==
    Arr([i \in 1..Len(qv) |-> Arr([t \in 1..Len(atomic_tr) |-> Dot(qv[i], atomic_tr[t])])])

\* exp(-1j * phi), phi counted in units of pi/2
ExpNegI(phi) ==
    CASE phi % 4 = 0 -> <<1, 0, 1>>
      [] phi % 4 = 1 -> <<0, -1, 1>>
      [] phi % 4 = 2 -> <<-1, 0, 1>>
      [] phi % 4 = 3 -> <<0, 1, 1>>

\* ai = np.exp(-1j * np.tensordot(q, atomic_tr, axes=(1, 1)))
Amplitudes(qv, atomic_tr) ==
    LET ph == tensordot(qv, atomic_tr)
    IN  Arr([i \in 1..Len(ph) |-> Arr([t \in 1..Len(ph[i]) |-> ExpNegI(ph[i][t])])])

\* np.arange(1, 1 + n)
arange1(n) == Arr([j \in 1..n |-> j])

\* the weights without the [1:] that drops the repeated center
LagWeightsNoTrim(n) ==
    LET a == arange1(n)
        c == a \o Reverse(a)
    IN  Arr([j \in 1..Len(c) |-> Recip(c[j])])

\* w = np.arange(1, 1 + len(ai[0])); w = 1.0 / np.concatenate((w, w[::-1][1:]))
LagWeights(n) ==
    LET a == arange1(n)
        c == a \o Tail(Reverse(a))
    IN  Arr([j \in 1..Len(c) |-> Recip(c[j])])

\* np.correlate(x, x, "full"): entry j (1-based) is lag k = j - N,
\* c_k = sum_n x[n + k] * conj(x[n]) over the n with both indices in range
correlate(x) ==
    LET N == Len(x)
        Lo(k) == Max(1, 1 - k)
        Hi(k) == Min(N, N - k)
        term(k) == Arr([m \in 1..(Hi(k) - Lo(k) + 1) |->
                          CMul(x[Lo(k) + m - 1 + k], CConj(x[Lo(k) + m - 1]))])
    IN  Arr([j \in 1..(2 * N - 1) |-> CSum(term(j - N))])

\* the raw correlation sums, without the lag weights
CorrelateRowsUnweighted(a, wt, atomic_s_inc) ==
    Arr([i \in 1..Len(a) |->
           LET c == correlate(a[i])
           IN  Arr([j \in 1..Len(c) |-> CMul(CInt(atomic_s_inc * atomic_s_inc), c[j])])])

\* np.apply_along_axis(lambda x: w * atomic_s_inc**2 * np.correlate(x, x, "full"), 1, ai)
CorrelateRows(a, wt, atomic_s_inc) ==
    Arr([i \in 1..Len(a) |->
           LET c == correlate(a[i])
           IN  Arr([j \in 1..Len(c) |->
                      CMul(CMul(wt[j], CInt(atomic_s_inc * atomic_s_inc)), c[j])])])

\* result[:, len(result[0])//2:]
CausalHalf(r) ==
    Arr([i \in 1..Len(r) |-> SubSeq(r[i], (Len(r[1]) \div 2) + 1, Len(r[i]))])

serial_worker(atomic_tr, atomic_s_inc, qv) ==
    LET a  == Amplitudes(qv, atomic_tr)
        wt == LagWeights(Len(a[1]))
    IN  CausalHalf(CorrelateRows(a, wt, atomic_s_inc))

\* ------------------------------------------------------------------ state
VARIABLES
    tr,         \* trajectory: one sequence of #frames positions per atom
    s_inc,      \* one weight per atom
    q,          \* the wavevectors of the current call
    n_cores,    \* None or the requested number of workers
    cpu_count,  \* the cores of the machine
    q_mod,      \* the magnitudes given to intermediate_spherical
    wpc,        \* position inside a stepped serial_worker call
    ai,         \* serial_worker: amplitudes
    w,          \* serial_worker: lag weights
    wresult,    \* serial_worker: weighted full correlation
    wret,       \* serial_worker: returned array
    pc,         \* position of the calling process
    exc,        \* the exception in flight, or None
    pools,      \* state of every pool created so far; the last is `pool`
    nodes,      \* workers of the current pool
    tasks,      \* state of each work item handed to pool.uimap
    delivered,  \* results that arrived and reduce has not taken yet
    consumed,   \* atoms whose result reduce has added, in arrival order
    result,     \* the running value of functools.reduce
    ret,        \* the value returned by intermediate_vector_set
    q_sets,     \* intermediate_spherical: one wavevector set per magnitude
    it,         \* intermediate_spherical: index of the next q_set
    sf,         \* intermediate_spherical: rows collected so far
    sph_ret     \* the value returned by intermediate_spherical

inputVars == <<tr, s_inc, n_cores, cpu_count, q_mod>>

workerVars == <<wpc, ai, w, wresult, wret>>

poolVars == <<pc, exc, pools, nodes, tasks, delivered, consumed, result, ret>>

shellVars == <<q_sets, it, sf, sph_ret>>

vars == <<tr, s_inc, q, n_cores, cpu_count, q_mod, wpc, ai, w, wresult, wret,
          pc, exc, pools, nodes, tasks, delivered, consumed, result, ret,
          q_sets, it, sf, sph_ret>>

\* ----------------------------------------------------------------- inputs
SeqsUpTo(S, n) == UNION {[1..k -> S] : k \in 0..n}

Positions == {<<0, 0, 0>>, <<1, 0, 0>>, <<2, 0, 0>>, <<0, 1, 0>>}

QSets == {<< <<1, 0, 0>> >>, << <<2, 0, 0>>, <<0, 1, 0>> >>}

QDefault == << <<1, 0, 0>>, <<2, 0, 0>> >>

\* an atom at r0 moving by v every frame
LinearMotion(r0, v, n) ==
    Arr([t \in 1..n |->
           <<r0[1] + (t - 1) * v[1], r0[2] + (t - 1) * v[2], r0[3] + (t - 1) * v[3]>>])

Motions == {<< <<1, 0, 0>>, <<0, 0, 0>> >>, << <<0, 0, 0>>, <<1, 1, 0>> >>}

AtomTrajs(n) == {LinearMotion(m[1], m[2], n) : m \in Motions}

Weights == 0..MaxWeight

Magnitudes == {1, 2}

idleWorker == wpc = "idle" /\ ai = <<>> /\ w = <<>> /\ wresult = <<>> /\ wret = <<>>

idlePool ==
    /\ exc = NoExc /\ pools = <<>> /\ nodes = 0 /\ tasks = <<>> /\ delivered = <<>>
    /\ consumed = <<>> /\ result = None /\ ret = None

idleShell == q_sets = <<>> /\ it = 0 /\ sf = <<>> /\ sph_ret = None

\* ------------------------------------------- serial_worker, line by line
InitWorker ==
    /\ \E n \in 1..MaxWorkerFrames : tr \in [1..1 -> [1..n -> Positions]]
    /\ s_inc \in [1..1 -> Weights]
    /\ q \in QSets
    /\ n_cores = None /\ cpu_count = 1 /\ q_mod = <<>>
    /\ wpc = "amplitudes" /\ ai = <<>> /\ w = <<>> /\ wresult = <<>> /\ wret = <<>>
    /\ pc = "worker" /\ idlePool /\ idleShell

WAmplitudes ==
    /\ wpc = "amplitudes"
    /\ ai' = Amplitudes(q, tr[1])
    /\ wpc' = "weights"
    /\ UNCHANGED <<inputVars, q, poolVars, shellVars, w, wresult, wret>>

WWeights ==
    /\ wpc = "weights"
    /\ w' = LagWeights(Len(ai[1]))
    /\ wpc' = "correlate"
    /\ UNCHANGED <<inputVars, q, poolVars, shellVars, ai, wresult, wret>>

WCorrelate ==
    /\ wpc = "correlate"
    /\ wresult' = CorrelateRows(ai, w, s_inc[1])
    /\ wpc' = "slice"
    /\ UNCHANGED <<inputVars, q, poolVars, shellVars, ai, w, wret>>

WReturn ==
    /\ wpc = "slice"
    /\ wret' = CausalHalf(wresult)
    /\ wpc' = "done"
    /\ UNCHANGED <<inputVars, q, poolVars, shellVars, ai, w, wresult>>

NextWorker == WAmplitudes \/ WWeights \/ WCorrelate \/ WReturn

SpecWorker == InitWorker /\ [][NextWorker]_vars

\* ------------------------------------------------- intermediate_vector_set
Last(s) == s[Len(s)]

SetLast(s, v) == [s EXCEPT ![Len(s)] = v]

RECURSIVE SumSq(_)
\* np.sum(s_inc * s_inc)
SumSq(s) == IF s = <<>> THEN 0 ELSE SumSq(SubSeq(s, 1, Len(s) - 1)) + s[Len(s)] * s[Len(s)]

\* the workers of pathos.pools.ProcessPool(nodes=n): the machine's cores when n is None
ProcessPoolNodes(n, cpus) == IF n = None THEN cpus ELSE n[1]

\* the work items of pool.uimap(serial_worker, tr, s_inc): the sequences are
\* zipped, item a pairs tr[a] with s_inc[a], the longer sequence's tail is dropped
UimapItems(trs, ws) == 1..Min(Len(trs), Len(ws))

Running == {a \in DOMAIN tasks : tasks[a] = "running"}

Queued == {a \in DOMAIN tasks : tasks[a] = "queued"}

InitInputs ==
    /\ tr \in SeqsUpTo(AtomTrajs(MaxFrames), MaxAtoms)
    /\ s_inc \in SeqsUpTo(Weights, MaxAtoms)
    /\ n_cores \in {None, <<MaxCores>>}
    /\ cpu_count \in {1, MaxCores}

Init ==
    /\ InitInputs
    /\ q = QDefault
    /\ q_mod = <<>>
    /\ pc = "start"
    /\ idleWorker /\ idlePool /\ idleShell

\* pool = pathos.pools.ProcessPool(nodes=n_cores)
PoolCreate ==
    /\ pc = "start"
    /\ pools' = Append(pools, "open")
    /\ nodes' = ProcessPoolNodes(n_cores, cpu_count)
    /\ pc' = "restart"
    /\ UNCHANGED <<inputVars, q, workerVars, shellVars, exc, tasks, delivered, consumed,
                   result, ret>>

\* the pool cannot be created: the exception leaves the function, no pool exists
PoolCreateFail ==
    /\ pc = "start"
    /\ exc' = "PoolError"
    /\ pc' = "raised"
    /\ UNCHANGED <<inputVars, q, workerVars, shellVars, pools, nodes, tasks, delivered,
                   consumed, result, ret>>

\* pool.restart(force=True)
PoolRestart ==
    /\ pc = "restart"
    /\ pools' = SetLast(pools, "open")
    /\ pc' = "map"
    /\ UNCHANGED <<inputVars, q, workerVars, shellVars, exc, nodes, tasks, delivered,
                   consumed, result, ret>>

\* pool.restart raises inside the try block
PoolRestartFail ==
    /\ pc = "restart"
    /\ exc' = "RestartError"
    /\ pc' = "finally_close"
    /\ UNCHANGED <<inputVars, q, workerVars, shellVars, pools, nodes, tasks, delivered,
                   consumed, result, ret>>

\* pool.uimap(serial_worker, tr, s_inc): the items are queued, reduce starts
Uimap ==
    /\ pc = "map"
    /\ tasks' = [a \in UimapItems(tr, s_inc) |-> "queued"]
    /\ delivered' = <<>>
    /\ consumed' = <<>>
    /\ result' = None
    /\ pc' = "reduce"
    /\ UNCHANGED <<inputVars, q, workerVars, shellVars, exc, pools, nodes, ret>>

\* a free worker takes the next queued item
WorkerStart ==
    /\ Queued # {}
    /\ Cardinality(Running) < nodes
    /\ LET a == CHOOSE x \in Queued : \A y \in Queued : x <= y
       IN  tasks' = [tasks EXCEPT ![a] = "running"]
    /\ UNCHANGED <<inputVars, q, workerVars, shellVars, pc, exc, pools, nodes, delivered,
                   consumed, result, ret>>

\* a worker returns serial_worker(tr[a], s_inc[a]); results arrive in completion order
WorkerFinish ==
    \E a \in Running :
        /\ tasks' = [tasks EXCEPT ![a] = "done"]
        /\ delivered' = Append(delivered,
                               [atom |-> a, ok |-> TRUE,
                                value |-> serial_worker(tr[a], s_inc[a], q)])
        /\ UNCHANGED <<inputVars, q, workerVars, shellVars, pc, exc, pools, nodes,
                       consumed, result, ret>>

\* serial_worker raises in a worker: the exception is delivered in place of a result
WorkerFail ==
    \E a \in Running :
        /\ tasks' = [tasks EXCEPT ![a] = "failed"]
        /\ delivered' = Append(delivered, [atom |-> a, ok |-> FALSE, value |-> None])
        /\ UNCHANGED <<inputVars, q, workerVars, shellVars, pc, exc, pools, nodes,
                       consumed, result, ret>>

\* functools.reduce(np.add, ...) takes the next arrived result
ReduceStep ==
    /\ pc = "reduce"
    /\ delivered # <<>>
    /\ Head(delivered).ok
    /\ result' = IF consumed = <<>> THEN Head(delivered).value
                 ELSE npAdd(result, Head(delivered).value)
    /\ consumed' = Append(consumed, Head(delivered).atom)
    /\ delivered' = Tail(delivered)
    /\ UNCHANGED <<inputVars, q, workerVars, shellVars, pc, exc, pools, nodes, tasks, ret>>

\* the exception leaving the function without the finally block
ReduceRaiseNoFinally ==
    /\ pc = "reduce"
    /\ delivered # <<>>
    /\ ~Head(delivered).ok
    /\ exc' = "WorkerError"
    /\ delivered' = Tail(delivered)
    /\ pc' = "raised"
    /\ UNCHANGED <<inputVars, q, workerVars, shellVars, pools, nodes, tasks, consumed,
                   result, ret>>

\* the next arrived result is a worker's exception: it is raised out of reduce
ReduceRaise ==
    /\ pc = "reduce"
    /\ delivered # <<>>
    /\ ~Head(delivered).ok
    /\ exc' = "WorkerError"
    /\ delivered' = Tail(delivered)
    /\ pc' = "finally_close"
    /\ UNCHANGED <<inputVars, q, workerVars, shellVars, pools, nodes, tasks, consumed,
                   result, ret>>

\* the iterator is exhausted: reduce returns, or raises TypeError if there was no item
ReduceEnd ==
    /\ pc = "reduce"
    /\ Len(consumed) = Cardinality(DOMAIN tasks)
    /\ exc' = IF consumed = <<>> THEN "TypeError" ELSE exc
    /\ pc' = "finally_close"
    /\ UNCHANGED <<inputVars, q, workerVars, shellVars, pools, nodes, tasks, delivered,
                   consumed, result, ret>>

\* finally: pool.close()
PoolClose ==
    /\ pc = "finally_close"
    /\ pools' = SetLast(pools, "closed")
    /\ pc' = "finally_join"
    /\ UNCHANGED <<inputVars, q, workerVars, shellVars, exc, nodes, tasks, delivered,
                   consumed, result, ret>>

\* leaving the finally block without pool.join()
PoolJoinSkipped ==
    /\ pc = "finally_join"
    /\ pc' = IF exc = NoExc THEN "divide" ELSE "raised"
    /\ UNCHANGED <<inputVars, q, workerVars, shellVars, exc, pools, nodes, tasks, delivered,
                   consumed, result, ret>>

\* finally: pool.join() waits for the workers to finish the items they were given
PoolJoin ==
    /\ pc = "finally_join"
    /\ Queued = {} /\ Running = {}
    /\ pools' = SetLast(pools, "joined")
    /\ pc' = IF exc = NoExc THEN "divide" ELSE "raised"
    /\ UNCHANGED <<inputVars, q, workerVars, shellVars, exc, nodes, tasks, delivered,
                   consumed, result, ret>>

\* return result/np.sum(s_inc*s_inc)
Normalize ==
    /\ pc = "divide"
    /\ ret' = npDivInt(result, SumSq(s_inc))
    /\ pc' = "returned"
    /\ UNCHANGED <<inputVars, q, workerVars, shellVars, exc, pools, nodes, tasks, delivered,
                   consumed, result>>

NextPool ==
    \/ PoolCreate \/ PoolCreateFail \/ PoolRestart \/ PoolRestartFail \/ Uimap
    \/ WorkerStart \/ WorkerFinish \/ WorkerFail
    \/ ReduceStep \/ ReduceRaise \/ ReduceEnd
    \/ PoolClose \/ PoolJoin \/ Normalize

Next == NextPool

Spec == Init /\ [][Next]_vars

\* ------------------------------------- intermediate, intermediate_spherical
\* np.average(sf, axis=0): the mean over the wavevector axis
npAverage0(a) ==
    Arr([t \in 1..Len(a[1]) |-> CDivInt(CSum(Arr([i \in 1..Len(a) |-> a[i][t]])), Len(a))])

\* np.real on a one-dimensional array
npReal(row) == Arr([t \in 1..Len(row) |-> CReal(row[t])])

\* intermediate(...) applied to the array intermediate_vector_set returned
intermediate(ivs) == npAverage0(ivs)

\* the wavevectors that stand for the sphere of radius m
SphereSet(m) == << <<m, 0, 0>>, <<0, m, 0>>, <<0, 0, m>> >>

\* qvec.sphere_average(q_mod): one wavevector set per magnitude, in order
sphere_average(mods) == Arr([i \in 1..Len(mods) |-> SphereSet(mods[i])])

InitShell ==
    /\ tr \in [1..MaxAtoms -> AtomTrajs(MaxFrames)]
    /\ \E wv \in Weights : s_inc = [a \in 1..MaxAtoms |-> wv]
    /\ n_cores \in {None, <<1>>}
    /\ cpu_count = MaxCores
    /\ q_mod \in SeqsUpTo(Magnitudes, MaxMagnitudes)
    /\ q = <<>>
    /\ pc = "sph_start"
    /\ idleWorker /\ idlePool /\ idleShell

\* q_sets = qvec.sphere_average(q_mod)
SphStart ==
    /\ pc = "sph_start"
    /\ q_sets' = sphere_average(q_mod)
    /\ it' = 1
    /\ sf' = <<>>
    /\ pc' = "sph_next"
    /\ UNCHANGED <<inputVars, q, workerVars, exc, pools, nodes, tasks, delivered, consumed,
                   result, ret, sph_ret>>

\* for q_set in q_sets: intermediate(tr, q_set, s_inc) enters intermediate_vector_set
SphCall ==
    /\ pc = "sph_next"
    /\ it <= Len(q_sets)
    /\ q' = q_sets[it]
    /\ pc' = "start"
    /\ UNCHANGED <<inputVars, workerVars, shellVars, exc, pools, nodes, tasks, delivered,
                   consumed, result, ret>>

\* the row put in front of the list instead of at its end
SphCollectFront ==
    /\ pc = "returned"
    /\ sf' = <<npReal(intermediate(ret))>> \o sf
    /\ it' = it + 1
    /\ pc' = "sph_next"
    /\ UNCHANGED <<inputVars, q, workerVars, exc, pools, nodes, tasks, delivered, consumed,
                   result, ret, q_sets, sph_ret>>

\* the call returned: np.real(intermediate(...)) is the next element of the list
SphCollect ==
    /\ pc = "returned"
    /\ sf' = Append(sf, npReal(intermediate(ret)))
    /\ it' = it + 1
    /\ pc' = "sph_next"
    /\ UNCHANGED <<inputVars, q, workerVars, exc, pools, nodes, tasks, delivered, consumed,
                   result, ret, q_sets, sph_ret>>

\* return np.asarray(sf)
SphReturn ==
    /\ pc = "sph_next"
    /\ it > Len(q_sets)
    /\ sph_ret' = sf
    /\ pc' = "sph_done"
    /\ UNCHANGED <<inputVars, q, workerVars, exc, pools, nodes, tasks, delivered, consumed,
                   result, ret, q_sets, it, sf>>

NextShell == NextPool \/ SphStart \/ SphCall \/ SphCollect \/ SphReturn

SpecShell == InitShell /\ [][NextShell]_vars

\* ----------------------------------------------------------------- claims
Perms(n) == {p \in [1..n -> 1..n] : \A i, j \in 1..n : p[i] = p[j] => i = j}

Permuted(s, p) == Arr([i \in 1..Len(s) |-> s[p[i]]])

RECURSIVE OrderedSum(_, _, _, _)
\* the per-atom intensities of items 1..k added in index order
OrderedSum(trs, ws, qv, k) ==
    IF k = 1 THEN serial_worker(trs[1], ws[1], qv)
    ELSE npAdd(OrderedSum(trs, ws, qv, k - 1), serial_worker(trs[k], ws[k], qv))

\* sum of the per-atom intensities in index order over the sum of squared weights
EnsembleValue(trs, ws, qv) ==
    npDivInt(OrderedSum(trs, ws, qv, Min(Len(trs), Len(ws))), SumSq(ws))

AllFinite(a) == \A i \in 1..Len(a) : \A j \in 1..Len(a[i]) : IsFinite(a[i][j])

\* C1: whatever the order in which the workers deliver their results, the value
\* intermediate_vector_set returns is the sum of the per-atom intensities over the
\* sum of squared weights, and it is the value obtained for every permutation of
\* the atom axis applied to both the trajectory and the weights.
C1_OrderIndependent ==
    pc = "returned" =>
        /\ ret = EnsembleValue(tr, s_inc, q)
        /\ Len(tr) = Len(s_inc) =>
              \A p \in Perms(Len(tr)) :
                  EnsembleValue(Permuted(tr, p), Permuted(s_inc, p), q) = ret

C1_Witness ==
    /\ pc = "returned"
    /\ Len(tr) = Len(s_inc)
    /\ Len(consumed) >= 2
    /\ consumed[1] > consumed[2]
    /\ AllFinite(ret)
    /\ serial_worker(tr[1], s_inc[1], q) # serial_worker(tr[2], s_inc[2], q)

\* C2: once a pool was created, the call is left (by return or by exception) only
\* with that pool closed and joined.
C2_PoolReleased ==
    (pc \in {"divide", "returned", "raised"} /\ pools # <<>>) => Last(pools) = "joined"

C2_Witness ==
    /\ pc = "raised"
    /\ exc = "WorkerError"
    /\ pools # <<>>
    /\ Last(pools) = "joined"

\* C3: a value is returned only after every atom of the trajectory was added to
\* the sum exactly once, and never when a worker failed.
C3_AllAtomsOnce ==
    pc = "returned" =>
        /\ \A a \in 1..Len(tr) :
              Cardinality({i \in 1..Len(consumed) : consumed[i] = a}) = 1
        /\ Len(consumed) = Len(tr)
        /\ \A a \in DOMAIN tasks : tasks[a] # "failed"

\* C4: when the sum of squared weights is zero the call does not return; no
\* returned array holds the result of a division by zero.
C4_ZeroWeightIsError ==
    /\ SumSq(s_inc) = 0 => pc # "returned"
    /\ pc = "returned" => AllFinite(ret)

\* C5: when the number of weights differs from the number of atoms, or there is
\* no atom, no work item is handed to the pool and no result is returned.
C5_MismatchFailsFast ==
    (Len(tr) # Len(s_inc) \/ Len(tr) = 0) => (tasks = <<>> /\ pc # "returned")

\* C8: the pool has max(1, cores - 1) workers when n_cores is None and n_cores
\* workers otherwise.
C8_WorkerCount ==
    pools # <<>> =>
        nodes = IF n_cores = None THEN Max(1, cpu_count - 1) ELSE n_cores[1]

C10_OnePoolAtATime ==
    /\ \A i \in 1..(Len(pools) - 1) : pools[i] = "joined"
    /\ Cardinality({i \in 1..Len(pools) : pools[i] = "open"}) <= 1
    /\ Len(pools) <= it
    /\ pc \in {"sph_next", "start", "restart", "map", "sph_done"} =>
           (Queued = {} /\ Running = {})

C10_Witness ==
    /\ Len(pools) >= 2
    /\ Last(pools) = "open"
    /\ Running # {}
    /\ it = Len(pools)

\* the phase q.r grows by pi (modulo 2 pi) from every frame to the next
Alternating(qv, atomic_tr) ==
    \A t \in 1..(Len(atomic_tr) - 1) :
        (Dot(qv, atomic_tr[t + 1]) - Dot(qv, atomic_tr[t])) % 4 = 2

C9_LagWeight ==
    wpc \in {"correlate", "slice", "done"} =>
        LET N == Len(tr[1])
        IN  /\ Len(w) = 2 * N - 1
            /\ \A j \in 1..Len(w) :
                  /\ w[j] = w[Len(w) + 1 - j]
                  /\ w[j][1] > 0 /\ w[j][2] = 0 /\ w[j][3] > 0
                  /\ w[j] = Recip(N - Abs(j - N))

C9_Witness ==
    /\ wpc = "correlate"
    /\ Len(tr[1]) = MaxWorkerFrames
    /\ Len(w) >= 3

====
